---- MODULE Spec2Model ----
(***************************************************************************)
(* CrossProduct puzzle engine (notebook CrossProduct): fill_row, the lazy  *)
(* generator solutions and its consumers solve, well_formed and            *)
(* random_puzzles, together with table_puzzle / random_table.              *)
(*                                                                         *)
(* The generator is modelled as an explicit stack of suspended frames, one *)
(* per nested call of solutions; a consumer resumes it with next(S, None). *)
(* A Python set has no specified iteration order, so the for loop over     *)
(* fill_row's result takes the candidate rows in any order.                *)
(***************************************************************************)
EXTENDS Integers, Sequences, FiniteSets, TLC

\* ---------------------------------------------------------------- bounds
MaxRows == 2        \* puzzles have at most this many row products
MaxCols == 1        \* puzzles have at most this many column products
MaxProd == 2        \* row and column products of input puzzles are 0..MaxProd
MaxFillProd == 30   \* fill_row is applied to products 0..MaxFillProd
MaxK == 3           \* fill_row is applied to row lengths 0..MaxK
MaxNegProd == 6     \* and to the negative products -MaxNegProd..-1
MaxTableProd == 2   \* random tables have row and column products <= MaxTableProd
TallRows == 17      \* rows of the one-column tables whose column product exceeds 2^53

\* ------------------------------------------------------------- integers
\* An integer product (a Python int, or a numpy int64 below 2^63) is a Big: its
\* digits in base 2^15, least significant first, without leading zeros; 0 is <<>>.
\* A negative integer is <<-1>> followed by the digits of its absolute value.
Base == 2^15

RECURSIVE Big(_)
Big(n) ==
    IF n = 0 THEN <<>>
    ELSE IF n < 0 THEN <<-1>> \o Big(0 - n)
    ELSE <<n % Base>> \o Big(n \div Base)

Neg(a) == IF a = <<>> THEN a ELSE <<-1>> \o a

IsNeg(a) == a # <<>> /\ a[1] < 0

Abs(a) == IF IsNeg(a) THEN Tail(a) ELSE a

\* a * m + carry, for 0 <= m, carry <= Base
RECURSIVE MulAdd(_, _, _)
MulAdd(a, m, carry) ==
    IF a = <<>> THEN Big(carry)
    ELSE IF m = 0 THEN Big(carry)
    ELSE <<(a[1] * m + carry) % Base>> \o MulAdd(Tail(a), m, (a[1] * m + carry) \div Base)

\* <<a \div d, a % d>>, for 0 < d <= Base
RECURSIVE DivMod(_, _)
DivMod(a, d) ==
    IF a = <<>> THEN << <<>>, 0 >>
    ELSE LET hi == DivMod(Tail(a), d)
             v == hi[2] * Base + a[1]
         IN  << IF hi[1] = <<>> /\ v \div d = 0 THEN <<>> ELSE <<v \div d>> \o hi[1], v % d >>

\* a // d on Python ints, for a digit d: the floor of the quotient
floordiv(a, d) ==
    IF IsNeg(a)
    THEN LET qr == DivMod(Abs(a), d)
         IN  Neg(IF qr[2] = 0 THEN qr[1] ELSE MulAdd(qr[1], 1, 1))
    ELSE DivMod(a, d)[1]

IsOdd(a) == a # <<>> /\ a[1] % 2 = 1

RECURSIVE bit_length(_)
bit_length(n) == IF n = 0 THEN 0 ELSE 1 + bit_length(n \div 2)

BitLen(a) == IF a = <<>> THEN 0 ELSE 15 * (Len(a) - 1) + bit_length(a[Len(a)])

\* a * 2^s
RECURSIVE Shl(_, _)
Shl(a, s) ==
    IF a = <<>> \/ s = 0 THEN a
    ELSE IF s >= 15 THEN Shl(<<0>> \o a, s - 15)
    ELSE MulAdd(a, 2^s, 0)

\* a \div 2^s
RECURSIVE Shr(_, _)
Shr(a, s) ==
    IF a = <<>> \/ s = 0 THEN a
    ELSE IF s >= 15 THEN Shr(Tail(a), s - 15)
    ELSE DivMod(a, 2^s)[1]

\* --------------------------------------------------------------- float64
\* A float64 is [m, e], the value m * 2^e with m an odd Big of absolute value
\* below 2^53; 0.0 is [m |-> <<>>, e |-> 0].  Every float64 has exactly one such
\* form.  Rounding to nearest is symmetric in the sign.
Mantissa == 53

\* trailing zero bits of a digit n > 0
RECURSIVE LowZeros(_)
LowZeros(n) == IF n % 2 = 1 THEN 0 ELSE 1 + LowZeros(n \div 2)

\* m * 2^e with the trailing zero bits of m moved into the exponent
Odd(m, e) ==
    IF m = <<>> THEN [m |-> <<>>, e |-> 0]
    ELSE LET z == CHOOSE i \in 1..Len(m) : m[i] # 0 /\ \A j \in 1..(i - 1) : m[j] = 0
             t == LowZeros(m[z])
         IN  [m |-> Shr(SubSeq(m, z, Len(m)), t), e |-> e + 15 * (z - 1) + t]

\* the float64 nearest to the integer m * 2^e, ties to even
RoundInt(m, e) ==
    IF BitLen(m) <= Mantissa THEN Odd(m, e)
    ELSE LET t == BitLen(m) - Mantissa
             q == Shr(m, t)
             rest == BitLen(m) - BitLen(Odd(m, 0).m)  \* trailing zero bits of m
             \* the bits shifted out, against one half: the top one decides,
             \* and a tie is one where it is the only bit set
             half == IsOdd(Shr(m, t - 1))
             tie == half /\ rest = t - 1
             up == half /\ (~ tie \/ IsOdd(q))
         IN  Odd(IF up THEN MulAdd(q, 1, 1) ELSE q, e + t)

OddPart(d) == IF d % 2 = 0 THEN (IF d % 4 = 0 THEN (IF d % 8 = 0 THEN d \div 8 ELSE d \div 4) ELSE d \div 2) ELSE d

TwoPart(d) == IF d % 2 = 0 THEN (IF d % 4 = 0 THEN (IF d % 8 = 0 THEN 3 ELSE 2) ELSE 1) ELSE 0

\* the float64 nearest to m * 2^e / d, for a digit d
RoundDiv(m, e, d) ==
    LET dd == OddPart(d)
        qr == DivMod(m, dd)
    IN  IF qr[2] = 0 THEN RoundInt(qr[1], e - TwoPart(d))
        ELSE \* dd does not divide m: the quotient has no finite binary expansion,
             \* so it is never a tie and the bit below the last kept one decides
             LET s0 == Mantissa - BitLen(m) + bit_length(dd)
                 scaled == IF s0 + 1 >= 0 THEN Shl(m, s0 + 1) ELSE Shr(m, 0 - (s0 + 1))
                 q0 == DivMod(scaled, dd)[1]
                 long == BitLen(q0) > Mantissa + 1
                 q1 == IF long THEN Shr(q0, 1) ELSE q0
                 s == IF long THEN s0 - 1 ELSE s0
                 q == Shr(q1, 1)
             IN  Odd(IF IsOdd(q1) THEN MulAdd(q, 1, 1) ELSE q, e - TwoPart(d) - s)

\* -x for a float64 x
NegF(x) == [m |-> Neg(x.m), e |-> x.e]

\* float(n): an integer handed to numpy's true division becomes a float64
float(n) == IF IsNeg(n) THEN NegF(RoundInt(Abs(n), 0)) ELSE RoundInt(n, 0)

\* x / d on float64 x (numpy.true_divide)
true_divide(x, d) ==
    IF IsNeg(x.m) THEN NegF(RoundDiv(Abs(x.m), x.e, d)) ELSE RoundDiv(x.m, x.e, d)

\* n / d on Python ints: CPython returns the correctly rounded quotient
int_true_divide(n, d) ==
    IF IsNeg(n) THEN NegF(RoundDiv(Odd(Abs(n), 0).m, Odd(Abs(n), 0).e, d))
    ELSE RoundDiv(Odd(n, 0).m, Odd(n, 0).e, d)

\* numpy.divide(col_prods, row1): elementwise true division
divide(col_prods, row1) == [i \in 1..Len(col_prods) |-> true_divide(col_prods[i], row1[i])]

\* c == int(c)
is_int(x) == x.e >= 0

\* variant: the column product taken by its truth value, all(col_prods)
is_true(x) == x.m # <<>>

\* variant: the test of the other branch, c == int(c)
is_whole(x) == x.e >= 0

\* c == 1
is_one(x) == x.m = <<1>> /\ x.e = 0

\* (product / d).is_integer()
is_integer(product, d) == is_int(int_true_divide(product, d))

\* the largest binary exponent of float64: values from 2^1024 on are not floats
MaxExp == 1024

\* product / d raises OverflowError ("integer division result too large for a
\* float"): the correctly rounded quotient is 2^1024 or more
too_large(product, d) ==
    LET x == int_true_divide(product, d) IN BitLen(Abs(x.m)) + x.e > MaxExp

\* numpy.prod of a tuple of digits (an int64; exact below 2^63)
RECURSIVE prod(_)
prod(row) == IF row = <<>> THEN Big(1) ELSE MulAdd(prod(Tail(row)), row[1], 0)

transpose(table) ==
    IF table = <<>> THEN <<>>
    ELSE [c \in 1..Len(table[1]) |-> [r \in 1..Len(table) |-> table[r][c]]]

\* ------------------------------------------------------------ data types
Digits == 1..9

Bigs(ns) == [i \in 1..Len(ns) |-> Big(ns[i])]

Puzzle(row_prods, col_prods) == [row_prods |-> row_prods, col_prods |-> col_prods]

\* Puzzle(row_prods, col_prods) written with small numbers
PuzzleOf(rps, cps) == Puzzle(Bigs(rps), Bigs(cps))

SeqsUpTo(S, n) == UNION {[1..m -> S] : m \in 0..n}

BoundedPuzzles ==
    {PuzzleOf(rps, cps) : rps \in SeqsUpTo(0..MaxProd, MaxRows), cps \in SeqsUpTo(0..MaxProd, MaxCols)}

\* the small puzzles of the notebook's test suite, and the two-column part of its
\* multi-solution puzzle Puzzle([8, 8, 1], [8, 8, 1])
TestPuzzles ==
    {PuzzleOf(<<>>, <<>>), PuzzleOf(<<>>, <<1>>), PuzzleOf(<<>>, <<2>>), PuzzleOf(<<5>>, <<5>>),
     PuzzleOf(<<0>>, <<0>>), PuzzleOf(<<2, 12>>, <<3, 8>>), PuzzleOf(<<7, 7>>, <<7, 7>>),
     PuzzleOf(<<8, 8>>, <<8, 8>>)}

\* the arguments random_puzzles is called with: <<ntables, nrows, ncols>>
RandomCalls == ((0..2) \X (0..2) \X (0..2)) \cup {<<1, TallRows, 1>>}

\* Optional[Table]: None, or a Table (the empty Table [] is a value, not None)
None == [some |-> FALSE, table |-> <<>>]

Some(table) == [some |-> TRUE, table |-> table]

\* ------------------------------------------------------------- fill_row
\* variant: the empty row returned for every product, if k == 0: return {()}
RECURSIVE fill_row_any(_, _)
fill_row_any(product, k) ==
    IF k = 0 THEN {<<>>}
    ELSE UNION {{<<d>> \o rest : rest \in fill_row_any(floordiv(product, d), k - 1)} :
                d \in {e \in Digits : is_integer(product, e)}}

RECURSIVE fill_row(_, _)
fill_row(product, k) ==
    IF k = 0 /\ product = Big(1) THEN {<<>>}
    ELSE IF k = 0 /\ product # Big(1) THEN {}
    ELSE UNION {{<<d>> \o rest : rest \in fill_row(floordiv(product, d), k - 1)} :
                d \in {e \in Digits : is_integer(product, e)}}

\* fill_row(product, k) raises OverflowError: one of the tests it evaluates,
\* its own for d = 1, 2, ... or those of the calls below an accepted d, does
RECURSIVE fill_row_raises(_, _)
fill_row_raises(product, k) ==
    /\ k > 0
    /\ \E d \in Digits :
         \/ too_large(product, d)
         \/ is_integer(product, d) /\ fill_row_raises(floordiv(product, d), k - 1)

\* the same for a call whose whole tree of calls is too large to walk: the first
\* test, product / 1, has the largest quotient of all the tests of the tree
first_test_raises(product, k) == k > 0 /\ too_large(product, 1)

\* row in fill_row(product, len(row)), by the same recursion along the one row:
\* (d, *rest) is in the result iff d passes the test of the comprehension and
\* rest is in fill_row(product // d, k - 1); () is in it iff product == 1
RECURSIVE in_fill_row(_, _)
in_fill_row(row, product) ==
    IF row = <<>> THEN product = Big(1)
    ELSE /\ row[1] \in Digits
         /\ is_integer(product, row[1])
         /\ in_fill_row(Tail(row), floordiv(product, row[1]))

\* -------------------------------------------------------- table_puzzle
table_puzzle(table) ==
    Puzzle([r \in 1..Len(table) |-> prod(table[r])],
           [c \in 1..Len(transpose(table)) |-> prod(transpose(table)[c])])

Column(t, c) == [r \in 1..Len(t) |-> t[r][c]]

\* one-column tables of TallRows rows whose column product exceeds 2^53
TallSevenNines == [r \in 1..TallRows |-> IF r = 1 THEN <<7>> ELSE <<9>>]

TallNines == [r \in 1..TallRows |-> <<9>>]

\* a - 1 for a Big a > 0
RECURSIVE Pred(_)
Pred(a) ==
    IF a = <<1>> THEN <<>>
    ELSE IF a[1] > 0 THEN <<a[1] - 1>> \o Tail(a)
    ELSE <<Base - 1>> \o Pred(Tail(a))

\* a + 1 for a Big a
Succ(a) == MulAdd(a, 1, 1)

\* the puzzle of TallSevenNines, and the puzzle of TallNines with its column
\* product lowered by one: Puzzle([9] * 17, [9 ** 17 - 1])
TallPuzzles ==
    {table_puzzle(TallSevenNines),
     Puzzle(table_puzzle(TallNines).row_prods, <<Pred(table_puzzle(TallNines).col_prods[1])>>)}

\* puzzles with a negative row product or column product
NegativePuzzles ==
    {PuzzleOf(<<-2>>, <<2>>), PuzzleOf(<<2>>, <<-2>>), PuzzleOf(<<-1, -1>>, <<1>>),
     PuzzleOf(<<>>, <<-1>>), PuzzleOf(<<2, 3>>, <<-6>>)}

\* the least power of two that no float64 holds, and puzzles with that row product
\* (2^MaxExp, written digit by digit)
Huge == [i \in 1..(MaxExp \div 15 + 1) |-> IF i = MaxExp \div 15 + 1 THEN 2^(MaxExp % 15) ELSE 0]

HugePuzzles == {Puzzle(<<Huge>>, <<Big(1)>>), Puzzle(<<Big(2), Huge>>, <<Big(2)>>)}

Puzzles ==
    BoundedPuzzles \cup TestPuzzles \cup TallPuzzles \cup NegativePuzzles \cup HugePuzzles

\* the questions `row in fill_row(product, len(row))` asked: short rows against
\* the products 0..MaxFillProd, and the row of TallRows nines against 9 ** TallRows
\* and 9 ** TallRows + 1
RowQueries ==
    {<<Big(n), row>> : n \in 0..MaxFillProd, row \in SeqsUpTo({1, 2, 3, 5}, MaxK)}
        \cup {<<Huge, <<8>>>>}
        \cup {<<table_puzzle(TallNines).col_prods[1], Column(TallNines, 1)>>,
              <<Succ(table_puzzle(TallNines).col_prods[1]), Column(TallNines, 1)>>}

\* random_table(nrows, ncols): the tables randint can produce whose derived
\* products stay within MaxTableProd; of the tables of TallRows rows, the tall one
Small(n) == BitLen(n) <= 15 /\ DivMod(n, Base)[2] <= MaxTableProd

RowsOfDigits(ncols) == {row \in [1..ncols -> Digits] : Small(prod(row))}

random_table(nrows, ncols) ==
    IF nrows = TallRows /\ ncols = 1 THEN {TallSevenNines}
    ELSE {t \in [1..nrows -> RowsOfDigits(ncols)] :
            \A c \in 1..Len(transpose(t)) : Small(prod(transpose(t)[c]))}

\* ------------------------------------------------------------------ state
VARIABLES
    op,        \* the function called: "fill_row", "in_fill_row", "solutions", "solve", "well_formed", "random_puzzles"
    pc,        \* position of the caller: "call", "wait", "loop", "returned", "done", "raised"
    product,   \* fill_row's argument product
    k,         \* fill_row's argument k
    filled,    \* fill_row's return value
    cand,      \* the row asked about in `row in fill_row(product, k)`
    member,    \* the value of `row in fill_row(product, k)`
    puzzle,    \* the puzzle handed to solutions
    gen,       \* generator S = solutions(puzzle): "created", "running", "suspended", "finished", "raised"
    stack,     \* frames of the nested generators, outermost first
    out,       \* the Table of the latest yield
    produced,  \* every Table yielded by S so far, in order
    explored,  \* number of candidate rows the for loops over fill_row have taken
    pulls,     \* number of next(S, None) calls made on S
    tables,    \* list(solutions(puzzle)) under construction
    earlier,   \* the list an earlier evaluation of list(solutions(puzzle)) returned
    answer,    \* solve's return value
    first,     \* well_formed's local first
    second,    \* well_formed's local second
    ok,        \* well_formed's return value
    shape,     \* random_puzzles' arguments <<ntables, nrows, ncols>>
    table,     \* the Table handed to table_puzzle
    made,      \* the puzzles the generator expression of random_puzzles has produced
    kept       \* random_puzzles' result list under construction

vars == <<op, pc, product, k, filled, cand, member, puzzle, gen, stack, out, produced, explored,
          pulls, tables, earlier, answer, first, second, ok, shape, table, made, kept>>

fillVars == <<product, k, filled, cand, member>>
genVars == <<gen, stack, out, produced, explored>>
wfVars == <<first, second, ok>>
randVars == <<shape, table, made, kept>>

\* ------------------------------------------------------- generator frames
Frame(row_prods, col_prods) ==
    [row_prods |-> row_prods, col_prods |-> col_prods, pc |-> "start",
     row1 |-> <<>>, todo |-> {}]

top == stack[Len(stack)]

SetTop(f) == [stack EXCEPT ![Len(stack)] = f]

\* the rows chosen by the frames below the top one: what the chain of
\* `yield [row1, *rows]` builds around the innermost `yield []`
RowsOnStack == [i \in 1..(Len(stack) - 1) |-> stack[i].row1]

\* the top frame's body ends: its caller's inner for loop ends and the caller
\* goes on with its loop over the candidate rows; without a caller S is finished
Return ==
    IF Len(stack) = 1
    THEN /\ stack' = <<>>
         /\ gen' = "finished"
    ELSE /\ stack' = [i \in 1..(Len(stack) - 1) |->
                        IF i = Len(stack) - 1 THEN [stack[i] EXCEPT !.pc = "rows"] ELSE stack[i]]
         /\ gen' = "running"

\* ----------------------------------------------------------- solutions
\* if not row_prods and all(c == 1 for c in col_prods): yield []
\* The value travels up through every caller's `yield [row1, *rows]`.
YieldEmpty ==
    /\ gen = "running"
    /\ top.pc = "start"
    /\ top.row_prods = <<>>
    /\ \A i \in 1..Len(top.col_prods) : is_one(top.col_prods[i])
    /\ stack' = SetTop([top EXCEPT !.pc = "yielded"])
    /\ gen' = "suspended"
    /\ out' = RowsOnStack
    /\ produced' = Append(produced, RowsOnStack)
    /\ UNCHANGED <<op, pc, fillVars, puzzle, explored, pulls, tables, earlier, answer, wfVars, randVars>>

\* elif row_prods and all(c == int(c) for c in col_prods):
\*     for row1 in fill_row(row_prods[0], len(col_prods)):
FillFirstRow ==
    /\ gen = "running"
    /\ top.pc = "start"
    /\ top.row_prods # <<>>
    /\ \A i \in 1..Len(top.col_prods) : is_int(top.col_prods[i])
    /\ IF fill_row_raises(top.row_prods[1], Len(top.col_prods))
       THEN \* the OverflowError leaves every frame and the caller of next
            /\ gen' = "raised"
            /\ pc' = "raised"
            /\ stack' = stack
       ELSE /\ stack' = SetTop([top EXCEPT !.pc = "rows",
                                          !.todo = fill_row(top.row_prods[1], Len(top.col_prods))])
            /\ UNCHANGED <<gen, pc>>
    /\ UNCHANGED <<op, fillVars, puzzle, out, produced, explored, pulls, tables, earlier,
                   answer, wfVars, randVars>>

\* neither branch of the if: the generator body ends without a yield
NoBranch ==
    /\ gen = "running"
    /\ top.pc = "start"
    /\ ~ (top.row_prods = <<>> /\ \A i \in 1..Len(top.col_prods) : is_one(top.col_prods[i]))
    /\ ~ (top.row_prods # <<>> /\ \A i \in 1..Len(top.col_prods) : is_int(top.col_prods[i]))
    /\ Return
    /\ UNCHANGED <<op, pc, fillVars, puzzle, out, produced, explored, pulls, tables, earlier,
                   answer, wfVars, randVars>>

\* variant: the column products divided in place, col_prods /= row1, so that the
\* frame's later candidate rows meet the quotients left by the earlier ones
NextRowInPlace ==
    /\ gen = "running"
    /\ top.pc = "rows"
    /\ \E row1 \in top.todo :
         stack' = Append(SetTop([top EXCEPT !.pc = "inner", !.row1 = row1,
                                            !.todo = top.todo \ {row1},
                                            !.col_prods = divide(top.col_prods, row1)]),
                         Frame(Tail(top.row_prods), divide(top.col_prods, row1)))
    /\ explored' = explored + 1
    /\ UNCHANGED <<op, pc, fillVars, puzzle, gen, out, produced, pulls, tables, earlier, answer,
                   wfVars, randVars>>

\* the for loop takes the next row1 of the set, in the set's iteration order, and
\* starts  for rows in solutions(Puzzle(row_prods[1:], divide(col_prods, row1)))
NextRow ==
    /\ gen = "running"
    /\ top.pc = "rows"
    /\ \E row1 \in top.todo :
         stack' = Append(SetTop([top EXCEPT !.pc = "inner", !.row1 = row1,
                                            !.todo = top.todo \ {row1}]),
                         Frame(Tail(top.row_prods), divide(top.col_prods, row1)))
    /\ explored' = explored + 1
    /\ UNCHANGED <<op, pc, fillVars, puzzle, gen, out, produced, pulls, tables, earlier, answer,
                   wfVars, randVars>>

\* the for loop over fill_row's rows is exhausted: the generator body ends
RowsExhausted ==
    /\ gen = "running"
    /\ top.pc = "rows"
    /\ top.todo = {}
    /\ Return
    /\ UNCHANGED <<op, pc, fillVars, puzzle, out, produced, explored, pulls, tables, earlier,
                   answer, wfVars, randVars>>

\* next(S, None): start S, resume it after its yield, or find it finished.
\* A resumed S re-enters every suspended frame down to the innermost, which
\* stands after `yield []` at the end of its body.
Resume ==
    CASE gen = "created" ->
            /\ stack' = <<Frame(puzzle.row_prods,
                                [i \in 1..Len(puzzle.col_prods) |-> float(puzzle.col_prods[i])])>>
            /\ gen' = "running"
      [] gen = "suspended" -> Return
      [] OTHER -> UNCHANGED <<stack, gen>>

Pull ==
    /\ pc = "call"
    /\ pc' = "wait"
    /\ pulls' = pulls + 1
    /\ Resume
    /\ UNCHANGED <<op, fillVars, puzzle, out, produced, explored, tables, earlier, answer,
                   wfVars, randVars>>

\* variant: the yielded Table taken by its truth value, next(S, None) or None
GotOrNone == IF gen = "suspended" /\ out # <<>> THEN Some(out) ELSE None

\* what next(S, None) returns once S has yielded or finished
Got == IF gen = "suspended" THEN Some(out) ELSE None

Delivered == pc = "wait" /\ gen \in {"suspended", "finished"}

\* list(solutions(puzzle)): one more element, or the end of the list
ListNext ==
    /\ op \in {"solutions", "table_puzzle"}
    /\ Delivered
    /\ IF gen = "suspended"
       THEN tables' = Append(tables, out) /\ pc' = "call"
       ELSE tables' = tables /\ pc' = "done"
    /\ UNCHANGED <<op, fillVars, puzzle, genVars, pulls, earlier, answer, wfVars, randVars>>

\* list(solutions(puzzle)) == list(solutions(puzzle)): the first list is kept and
\* a new generator is made for the second; then the two lists are compared
ListAgain ==
    /\ op = "solutions_twice"
    /\ Delivered
    /\ IF gen = "suspended"
       THEN /\ tables' = Append(tables, out)
            /\ pc' = "call"
            /\ UNCHANGED <<earlier, genVars, pulls>>
       ELSE IF earlier = None
       THEN /\ earlier' = Some(tables)
            /\ tables' = <<>>
            /\ gen' = "created"
            /\ stack' = <<>>
            /\ out' = <<>>
            /\ produced' = <<>>
            /\ pulls' = 0
            /\ pc' = "call"
            /\ UNCHANGED explored
       ELSE /\ pc' = "done"
            /\ UNCHANGED <<tables, earlier, genVars, pulls>>
    /\ UNCHANGED <<op, fillVars, puzzle, answer, wfVars, randVars>>

\* variant: the whole sequence built before its first element is taken,
\* next(iter(list(solutions(puzzle))), None)
SolveReturnAll ==
    /\ op = "solve"
    /\ Delivered
    /\ answer' = (IF answer = None THEN Got ELSE answer)
    /\ pc' = (IF gen = "suspended" THEN "call" ELSE "done")
    /\ UNCHANGED <<op, fillVars, puzzle, genVars, pulls, tables, earlier, wfVars, randVars>>

\* def solve(puzzle): return next(solutions(puzzle), None)
SolveReturn ==
    /\ op = "solve"
    /\ Delivered
    /\ answer' = Got
    /\ pc' = "done"
    /\ UNCHANGED <<op, fillVars, puzzle, genVars, pulls, tables, earlier, wfVars, randVars>>

\* ---------------------------------------------------------- well_formed
is_not_None(v) == v.some

is_None(v) == ~ v.some

\* first, second = next(S, None), next(S, None): the first of the two calls
WfFirst ==
    /\ op \in {"well_formed", "random_puzzles"}
    /\ Delivered
    /\ pulls = 1
    /\ first' = Got
    /\ pc' = "call"
    /\ UNCHANGED <<op, fillVars, puzzle, genVars, pulls, tables, earlier, answer, second, ok, randVars>>

\* variant: S drained to count its elements, len(list(S)) == 1
WfReturnAll ==
    /\ op \in {"well_formed", "random_puzzles"}
    /\ Delivered
    /\ pulls >= 2
    /\ second' = (IF gen = "suspended" THEN Got ELSE second)
    /\ ok' = (gen = "finished" /\ Len(produced) = 1)
    /\ pc' = (IF gen = "suspended" THEN "call"
              ELSE IF op = "random_puzzles" THEN "returned" ELSE "done")
    /\ UNCHANGED <<op, fillVars, puzzle, genVars, pulls, tables, earlier, answer, first, randVars>>

\* the second call, and  return first is not None and second is None
WfReturn ==
    /\ op \in {"well_formed", "random_puzzles"}
    /\ Delivered
    /\ pulls = 2
    /\ second' = Got
    /\ ok' = (is_not_None(first) /\ is_None(Got))
    /\ pc' = IF op = "random_puzzles" THEN "returned" ELSE "done"
    /\ UNCHANGED <<op, fillVars, puzzle, genVars, pulls, tables, earlier, answer, first, randVars>>

\* ------------------------------------------------------- random_puzzles
\* the list comprehension asks the generator expression for its next puzzle,
\* table_puzzle(random_table(nrows, ncols)), and calls well_formed(puzzle)
RandomNext ==
    /\ op = "random_puzzles"
    /\ pc = "loop"
    /\ Len(made) < shape[1]
    /\ \E t \in random_table(shape[2], shape[3]) :
         /\ table' = t
         /\ puzzle' = table_puzzle(t)
         /\ made' = Append(made, table_puzzle(t))
    /\ pc' = "call"
    /\ gen' = "created"
    /\ stack' = <<>>
    /\ out' = <<>>
    /\ produced' = <<>>
    /\ pulls' = 0
    /\ first' = None
    /\ second' = None
    /\ UNCHANGED <<op, fillVars, explored, tables, earlier, answer, ok, shape, kept>>

\* [puzzle for puzzle in puzzles if well_formed(puzzle)]
RandomKeep ==
    /\ op = "random_puzzles"
    /\ pc = "returned"
    /\ kept' = IF ok THEN Append(kept, puzzle) ELSE kept
    /\ pc' = "loop"
    /\ UNCHANGED <<op, fillVars, puzzle, genVars, pulls, tables, earlier, answer, wfVars, shape, table, made>>

\* range(ntables) is exhausted: random_puzzles returns the list
RandomReturn ==
    /\ op = "random_puzzles"
    /\ pc = "loop"
    /\ Len(made) >= shape[1]
    /\ pc' = "done"
    /\ UNCHANGED <<op, fillVars, puzzle, genVars, pulls, tables, earlier, answer, wfVars, randVars>>

\* ------------------------------------------------------------- fill_row
FillRowCall ==
    /\ op = "fill_row"
    /\ pc = "call"
    /\ IF fill_row_raises(product, k)
       THEN filled' = filled /\ pc' = "raised"
       ELSE filled' = fill_row(product, k) /\ pc' = "done"
    /\ UNCHANGED <<op, product, k, cand, member, puzzle, genVars, pulls, tables, earlier, answer,
                   wfVars, randVars>>

\* row in fill_row(product, k)
FillRowHas ==
    /\ op = "in_fill_row"
    /\ pc = "call"
    /\ IF first_test_raises(product, k)
       THEN member' = member /\ pc' = "raised"
       ELSE member' = in_fill_row(cand, product) /\ pc' = "done"
    /\ UNCHANGED <<op, product, k, filled, cand, puzzle, genVars, pulls, tables, earlier, answer,
                   wfVars, randVars>>

\* ------------------------------------------------------- specifications
InitCall(name) ==
    /\ op = name
    /\ pc = "call"
    /\ product = Big(1)
    /\ k = 0
    /\ filled = {}
    /\ cand = <<>>
    /\ member = FALSE
    /\ puzzle \in Puzzles
    /\ gen = "created"
    /\ stack = <<>>
    /\ out = <<>>
    /\ produced = <<>>
    /\ explored = 0
    /\ pulls = 0
    /\ tables = <<>>
    /\ earlier = None
    /\ answer = None
    /\ first = None
    /\ second = None
    /\ ok = FALSE
    /\ shape = <<0, 0, 0>>
    /\ table = <<>>
    /\ made = <<>>
    /\ kept = <<>>

Generator == YieldEmpty \/ FillFirstRow \/ NoBranch \/ NextRow \/ RowsExhausted

\* fill_row(product, k) on every product and k within the bounds
InitFillRow ==
    /\ pc = "call"
    /\ \/ /\ op = "fill_row"
          /\ product \in {Big(n) : n \in (0 - MaxNegProd)..MaxFillProd} \cup {Huge}
          /\ k \in 0..MaxK
          /\ cand = <<>>
       \/ /\ op = "in_fill_row"
          /\ \E q \in RowQueries :
               /\ product = q[1]
               /\ cand = q[2]
               /\ k = Len(q[2])
    /\ filled = {}
    /\ member = FALSE
    /\ puzzle = PuzzleOf(<<>>, <<>>)
    /\ gen = "created"
    /\ stack = <<>>
    /\ out = <<>>
    /\ produced = <<>>
    /\ explored = 0
    /\ pulls = 0
    /\ tables = <<>>
    /\ earlier = None
    /\ answer = None
    /\ first = None
    /\ second = None
    /\ ok = FALSE
    /\ shape = <<0, 0, 0>>
    /\ table = <<>>
    /\ made = <<>>
    /\ kept = <<>>

NextFillRow == FillRowCall \/ FillRowHas

SpecFillRow == InitFillRow /\ [][NextFillRow]_vars

\* list(solutions(puzzle)) on every puzzle within the bounds
InitSolutions == InitCall("solutions")

NextSolutions == Pull \/ Generator \/ ListNext

SpecSolutions == InitSolutions /\ [][NextSolutions]_vars

\* list(solutions(puzzle)) evaluated twice, on the puzzles of the test suite
\* without its four-solution puzzle
InitTwice == InitCall("solutions_twice") /\ puzzle \in TestPuzzles \ {PuzzleOf(<<8, 8>>, <<8, 8>>)}

NextTwice == Pull \/ Generator \/ ListAgain

SpecTwice == InitTwice /\ [][NextTwice]_vars

\* solve(puzzle)
InitSolve == InitCall("solve")

NextSolve == Pull \/ Generator \/ SolveReturn

SpecSolve == InitSolve /\ [][NextSolve]_vars

\* well_formed(puzzle)
InitWellFormed == InitCall("well_formed")

NextWellFormed == Pull \/ Generator \/ WfFirst \/ WfReturn

SpecWellFormed == InitWellFormed /\ [][NextWellFormed]_vars

\* random_puzzles(ntables, nrows, ncols)
InitRandom ==
    /\ op = "random_puzzles"
    /\ pc = "loop"
    /\ product = Big(1)
    /\ k = 0
    /\ filled = {}
    /\ cand = <<>>
    /\ member = FALSE
    /\ puzzle = PuzzleOf(<<>>, <<>>)
    /\ gen = "created"
    /\ stack = <<>>
    /\ out = <<>>
    /\ produced = <<>>
    /\ explored = 0
    /\ pulls = 0
    /\ tables = <<>>
    /\ earlier = None
    /\ answer = None
    /\ first = None
    /\ second = None
    /\ ok = FALSE
    /\ shape \in RandomCalls
    /\ table = <<>>
    /\ made = <<>>
    /\ kept = <<>>

NextRandom == RandomNext \/ Pull \/ Generator \/ WfFirst \/ WfReturn \/ RandomKeep \/ RandomReturn

SpecRandom == InitRandom /\ [][NextRandom]_vars

\* table_puzzle(table), then list(solutions(puzzle)) of the puzzle it returns
Tables ==
    UNION {random_table(nrows, ncols) : nrows \in 0..MaxRows, ncols \in 0..MaxCols}
        \cup {<<<<1, 2>>, <<3, 4>>>>, <<<<5>>>>, <<<<7, 1>>, <<1, 7>>>>, <<<<9, 9>>, <<9, 9>>>>}
        \cup {TallSevenNines}

TablePuzzle ==
    /\ op = "table_puzzle"
    /\ pc = "start"
    /\ puzzle' = table_puzzle(table)
    /\ pc' = "call"
    /\ UNCHANGED <<op, fillVars, genVars, pulls, tables, earlier, answer, wfVars, randVars>>

InitRoundTrip ==
    /\ op = "table_puzzle"
    /\ pc = "start"
    /\ product = Big(1)
    /\ k = 0
    /\ filled = {}
    /\ cand = <<>>
    /\ member = FALSE
    /\ puzzle = PuzzleOf(<<>>, <<>>)
    /\ gen = "created"
    /\ stack = <<>>
    /\ out = <<>>
    /\ produced = <<>>
    /\ explored = 0
    /\ pulls = 0
    /\ tables = <<>>
    /\ earlier = None
    /\ answer = None
    /\ first = None
    /\ second = None
    /\ ok = FALSE
    /\ shape = <<0, 0, 0>>
    /\ table \in Tables
    /\ made = <<>>
    /\ kept = <<>>

NextRoundTrip == TablePuzzle \/ Pull \/ Generator \/ ListNext

SpecRoundTrip == InitRoundTrip /\ [][NextRoundTrip]_vars

\* every call at once
Init ==
    InitFillRow \/ InitSolutions \/ InitTwice \/ InitSolve \/ InitWellFormed \/ InitRandom \/ InitRoundTrip

Next ==
    NextFillRow \/ NextSolutions \/ ListAgain \/ SolveReturn \/ WfFirst \/ WfReturn
        \/ RandomNext \/ RandomKeep \/ RandomReturn \/ TablePuzzle

Spec == Init /\ [][Next]_vars

\* ------------------------------------------------------------ reference
\* What the puzzle asks of a Table, stated without the search.
Satisfies(t, p) ==
    /\ Len(t) = Len(p.row_prods)
    /\ \A r \in 1..Len(t) :
         /\ Len(t[r]) = Len(p.col_prods)
         /\ \A c \in 1..Len(t[r]) : t[r][c] \in Digits
         /\ prod(t[r]) = p.row_prods[r]
    /\ \A c \in 1..Len(p.col_prods) : prod(Column(t, c)) = p.col_prods[c]

\* every row of k digits whose product is n, by enumeration of all rows
RowsWithProduct(n, len) == {row \in [1..len -> Digits] : prod(row) = n}

\* every Table built from one row per row product
RECURSIVE TablesOf(_)
TablesOf(rowsets) ==
    IF rowsets = <<>> THEN {<<>>}
    ELSE {<<row>> \o t : row \in rowsets[1], t \in TablesOf(Tail(rowsets))}

\* every Table that satisfies the puzzle
Satisfying(p) ==
    {t \in TablesOf([r \in 1..Len(p.row_prods) |->
                        RowsWithProduct(p.row_prods[r], Len(p.col_prods))]) :
        Satisfies(t, p)}

Range(s) == {s[i] : i \in 1..Len(s)}

NoDuplicates(s) == \A i, j \in 1..Len(s) : i # j => s[i] # s[j]

\* ---------------------------------------------------------------- claims
\* C1: fill_row(product, k) is exactly the set of all rows of k digits 1..9
\* whose product is `product`; fill_row(n, 0) is {()} for n = 1 and empty otherwise.
FillRowExact ==
    /\ (op = "fill_row" /\ pc = "done") =>
          /\ filled = RowsWithProduct(product, k)
          /\ \A r \in filled : Len(r) = k /\ 0 \notin Range(r) /\ prod(r) = product
          /\ k = 0 => filled = (IF product = Big(1) THEN {<<>>} ELSE {})
    /\ (op = "in_fill_row" /\ pc = "done") =>
          (member <=> (Range(cand) \subseteq Digits /\ prod(cand) = product))

\* C2: every Table that solutions(puzzle) yields satisfies the puzzle: it has one
\* row per row product, every row has one digit 1..9 per column product, and all
\* row and column products are the required ones.
YieldedSatisfy ==
    op = "solutions" => \A i \in 1..Len(produced) : Satisfies(produced[i], puzzle)

\* C3: list(solutions(puzzle)) holds every Table that satisfies the puzzle, each
\* exactly once, and is empty for a puzzle that no Table satisfies.
SolutionsExact ==
    (op = "solutions" /\ pc = "done") =>
        /\ Range(tables) = Satisfying(puzzle)
        /\ NoDuplicates(tables)
        /\ tables = produced

\* C4: solve(puzzle) returns the first Table that solutions(puzzle) yields, and
\* None exactly when solutions(puzzle) yields nothing; the empty Table returned
\* for a solvable puzzle without rows is not None.
SolveFirst ==
    (op = "solve" /\ pc = "done") =>
        /\ answer = (IF produced = <<>> THEN None ELSE Some(produced[1]))
        /\ (answer = None) <=> (gen = "finished" /\ produced = <<>>)
        /\ (puzzle.row_prods = <<>> /\ produced # <<>>) => (answer = Some(<<>>) /\ answer # None)

SolveWitness ==
    op = "solve" /\ pc = "done" /\ answer = Some(<<>>) /\ puzzle.col_prods = Bigs(<<1>>)

\* C5: for a puzzle without row products solutions yields exactly the empty Table
\* when every column product is 1 (also when there is none), and nothing otherwise.
ZeroRows ==
    (op = "solutions" /\ pc = "done" /\ puzzle.row_prods = <<>>) =>
        tables = (IF \A c \in 1..Len(puzzle.col_prods) : puzzle.col_prods[c] = Big(1)
                  THEN << <<>> >> ELSE <<>>)

ZeroRowsWitness ==
    op = "solutions" /\ pc = "done" /\ puzzle = PuzzleOf(<<>>, <<1>>) /\ tables = << <<>> >>

\* C6: well_formed(puzzle) is true exactly when one and only one Table satisfies
\* the puzzle: false without a solution, false with two or more, true with one,
\* also when that one is the empty Table.
WellFormedUnique ==
    (op = "well_formed" /\ pc = "done") => (ok <=> Cardinality(Satisfying(puzzle)) = 1)

\* C7: well_formed asks solutions for at most two elements; once the second Table
\* is found the generator stays suspended, is not resumed for a third, and
\* well_formed returns false.
TwoPulls ==
    op = "well_formed" =>
        /\ pulls <= 2
        /\ Len(produced) <= 2
        /\ pc = "done" => pulls = 2
        /\ Len(produced) = 2 => (gen = "suspended" /\ (pc = "done" => ~ ok))

TwoPullsWitness ==
    /\ op = "well_formed" /\ pc = "done" /\ ~ ok
    /\ Len(produced) = 2 /\ gen = "suspended"
    /\ Cardinality(Satisfying(puzzle)) >= 4

\* C8: solve makes one next call; from the first yield on the generator stays
\* suspended and its frames take no further candidate row.
SolveLazy ==
    /\ [](op = "solve" =>
            /\ pulls <= 1
            /\ Len(produced) <= 1
            /\ Len(produced) = 1 => gen = "suspended")
    /\ [][(op = "solve" /\ Len(produced) = 1) => UNCHANGED <<gen, stack, explored, produced>>]_vars

SolveLazyWitness ==
    /\ op = "solve" /\ pc = "done" /\ answer # None
    /\ \E i \in 1..Len(stack) : stack[i].todo # {}
    /\ Cardinality(Satisfying(puzzle)) >= 2

\* C9: table_puzzle(T) has the product of each row of T as row products and the
\* product of each column of T as column products, and T is among the Tables
\* that solutions(table_puzzle(T)) yields.
NumCols(t) == IF t = <<>> THEN 0 ELSE Len(t[1])

RoundTrip ==
    (op = "table_puzzle" /\ pc # "start") =>
        /\ Len(puzzle.row_prods) = Len(table)
        /\ \A r \in 1..Len(table) : puzzle.row_prods[r] = prod(table[r])
        /\ Len(puzzle.col_prods) = NumCols(table)
        /\ \A c \in 1..NumCols(table) : puzzle.col_prods[c] = prod(Column(table, c))
        /\ pc = "done" => table \in Range(tables)

\* C10: random_puzzles returns, in generation order, exactly the well-formed ones
\* among the ntables puzzles derived from the generated tables: every returned
\* puzzle has exactly one solution, none with one solution is dropped, and the
\* result has at most ntables elements.
Unique(p) == Cardinality(Satisfying(p)) = 1

RandomKept ==
    op = "random_puzzles" =>
        /\ \A i \in 1..Len(kept) : Unique(kept[i])
        /\ Len(kept) <= Len(made)
        /\ Len(made) <= shape[1]
        /\ pc = "done" => (Len(made) = shape[1] /\ kept = SelectSeq(made, Unique))

\* C11: a product of 0 gives an empty result and no error: fill_row(0, k) is
\* empty for k > 0, and for a puzzle with a 0 among its row or column products
\* solutions yields nothing and solve returns None, without raising.
HasZero(p) ==
    \/ \E r \in 1..Len(p.row_prods) : p.row_prods[r] = Big(0)
    \/ \E c \in 1..Len(p.col_prods) : p.col_prods[c] = Big(0)

ZeroProducts ==
    /\ (op = "fill_row" /\ pc = "done" /\ product = Big(0) /\ k > 0) => filled = {}
    /\ (op = "in_fill_row" /\ pc = "done" /\ product = Big(0) /\ k > 0) => ~ member
    /\ (op \in {"solutions", "solve"} /\ HasZero(puzzle)) =>
          /\ produced = <<>>
          /\ gen # "raised"
          /\ pc # "raised"
          /\ (op = "solutions" /\ pc = "done") => tables = <<>>
          /\ (op = "solve" /\ pc = "done") => answer = None

ZeroProductsWitness ==
    /\ op = "solve" /\ pc = "done" /\ answer = None
    /\ puzzle = PuzzleOf(<<2, 0>>, <<0>>)

\* C12: a negative row product or column product is rejected with an error:
\* no call of fill_row, solutions, solve or well_formed on such an input ends
\* with a result.
HasNegative(p) ==
    \/ \E r \in 1..Len(p.row_prods) : IsNeg(p.row_prods[r])
    \/ \E c \in 1..Len(p.col_prods) : IsNeg(p.col_prods[c])

NegativeRejected ==
    /\ (op = "fill_row" /\ IsNeg(product)) => pc # "done"
    /\ (op \in {"solutions", "solve", "well_formed"} /\ HasNegative(puzzle)) =>
          (pc # "done" /\ gen # "finished")

\* C13: solutions yields its Tables in one fixed order: two evaluations of
\* list(solutions(puzzle)) on the same puzzle return the identical sequence.
SameOrder ==
    (op = "solutions_twice" /\ pc = "done") => tables = earlier.table

\* the column products a frame holds, as exact integers; the outermost frame
\* holds the caller's integers
Divides(d, x) == is_int(x) /\ DivMod(Shl(Abs(x.m), x.e), d)[2] = 0

RowDivides(i) ==
    \A c \in 1..Len(stack[i].col_prods) :
        IF i = 1 THEN DivMod(Abs(puzzle.col_prods[c]), stack[i].row1[c])[2] = 0
        ELSE Divides(stack[i].row1[c], stack[i].col_prods[c])

\* C14: the divisibility tests are exact: fill_row takes d as a head digit iff
\* product mod d = 0, and solutions goes on below a candidate row iff every
\* column product is exactly divisible by the row's digit for that column.
ExactTests ==
    /\ (op \in {"fill_row", "in_fill_row"} /\ pc = "done") =>
          \A d \in Digits : is_integer(product, d) <=> (DivMod(Abs(product), d)[2] = 0)
    /\ \A i \in 1..(Len(stack) - 1) :
          /\ stack[i + 1].pc # "start" => RowDivides(i)
          /\ (stack[i + 1].pc = "start" /\ RowDivides(i)) =>
                \A c \in 1..Len(stack[i + 1].col_prods) : is_int(stack[i + 1].col_prods[c])

\* C15: fill_row and the enumeration of solutions end in a result and never in
\* a runtime fault, and the solver frames are nested at most one per row plus
\* the zero-row base frame.
NoFault ==
    /\ pc # "raised"
    /\ gen # "raised"
    /\ Len(stack) <= Len(puzzle.row_prods) + 1

\* C16: arithmetic pruning: below a candidate row with a digit that does not
\* exactly divide the current product of its column, the frame that receives
\* the quotients stops at once: it calls fill_row for no later row, starts no
\* frame of its own and yields no Table.
Pruning ==
    \A i \in 1..(Len(stack) - 1) :
        ~ RowDivides(i) =>
            /\ Len(stack) = i + 1
            /\ stack[i + 1].pc = "start"
            /\ stack[i + 1].todo = {}
            /\ gen # "suspended"

\* (second half of C16) a frame calls fill_row at most once, when it leaves its
\* start, with its first remaining row product and its number of columns;
\* afterwards its set of candidate rows only shrinks
OneCall ==
    [][\A i \in 1..Len(stack) :
          (i <= Len(stack') /\ gen' # "raised") =>
              /\ (stack[i].pc = "start" /\ stack'[i].pc = "rows") =>
                    stack'[i].todo = fill_row(stack[i].row_prods[1], Len(stack[i].col_prods))
              /\ stack[i].pc # "start" =>
                    (stack'[i].pc # "start" /\ stack'[i].todo \subseteq stack[i].todo)]_vars

\* what solutions(Puzzle(row_prods, col_prods)) yields, as a set: the body of
\* solutions read as an equation, with no order among the rows of fill_row
RECURSIVE Yields(_, _)
Yields(row_prods, col_prods) ==
    IF row_prods = <<>> /\ \A c \in 1..Len(col_prods) : is_one(col_prods[c])
    THEN {<<>>}
    ELSE IF row_prods # <<>> /\ \A c \in 1..Len(col_prods) : is_int(col_prods[c])
    THEN UNION {{<<row1>> \o rows : rows \in Yields(Tail(row_prods), divide(col_prods, row1))} :
                  row1 \in fill_row(row_prods[1], Len(col_prods))}
    ELSE {}

YieldsOf(p) == Yields(p.row_prods, [c \in 1..Len(p.col_prods) |-> float(p.col_prods[c])])

\* C17: the set of Tables that solutions yields, the value of well_formed and,
\* for a puzzle with exactly one solution, the value of solve do not depend on
\* the order in which the candidate rows of fill_row are explored: whatever
\* order a run takes, they are those of the order-free reading of solutions.
OrderFree ==
    /\ (op = "solutions" /\ pc = "done") => Range(tables) = YieldsOf(puzzle)
    /\ (op = "solutions_twice" /\ pc = "done") =>
          (Range(tables) = YieldsOf(puzzle) /\ Range(earlier.table) = YieldsOf(puzzle))
    /\ (op = "well_formed" /\ pc = "done") => (ok <=> Cardinality(YieldsOf(puzzle)) = 1)
    /\ (op = "solve" /\ pc = "done" /\ Cardinality(YieldsOf(puzzle)) = 1) =>
          (answer.some /\ answer.table \in YieldsOf(puzzle))

\* two evaluations of the same puzzle that explored the rows in different orders
OrderFreeWitness ==
    /\ op = "solutions_twice" /\ pc = "done"
    /\ Len(tables) = 2
    /\ tables # earlier.table
    /\ Range(tables) = Range(earlier.table)

\* the frames that are inside their for loop over fill_row's rows
Looping == {i \in 1..Len(stack) : stack[i].pc \in {"rows", "inner"} /\ ~ IsNeg(stack[i].row_prods[1])}

\* the rows the top frame has still to branch over are rows of the one fill_row
\* call it made (all of them when it has just made the call)
Branches ==
    (gen = "running" /\ Len(stack) \in Looping /\ top.pc = "rows") =>
        \A row \in top.todo : Len(row) = Len(top.col_prods) /\ in_fill_row(row, top.row_prods[1])

\* C18 as stated: a solver level branches over fill_row(row_product, col_count),
\* and for every row_product >= 0 and every column count, 0 included, that set
\* has at most 9^(col_count - 1) rows (written without the fraction 9^(-1):
\* 9 * size <= 9^col_count).
BranchingBound ==
    /\ (op = "fill_row" /\ pc = "done" /\ ~ IsNeg(product)) => 9 * Cardinality(filled) <= 9^k
    /\ Branches
    /\ \A i \in Looping :
          9 * (Cardinality(stack[i].todo) + (IF stack[i].pc = "inner" THEN 1 ELSE 0))
             <= 9^Len(stack[i].col_prods)

\* C18, amended: the bound 9^(col_count - 1) holds for one column or more;
\* without columns fill_row returns at most the one empty row.
RowBound(n) == IF n = 0 THEN 1 ELSE 9^(n - 1)

BranchingFactor ==
    /\ (op = "fill_row" /\ pc = "done" /\ ~ IsNeg(product)) => Cardinality(filled) <= RowBound(k)
    /\ Branches
    /\ \A i \in Looping :
          Cardinality(stack[i].todo) + (IF stack[i].pc = "inner" THEN 1 ELSE 0)
             <= RowBound(Len(stack[i].col_prods))

\* a solver level without columns that branches over the one empty row
BranchingWitness ==
    /\ Len(stack) >= 2
    /\ stack[1].pc = "inner"
    /\ stack[1].col_prods = <<>>
    /\ stack[1].row1 = <<>>
    /\ stack[1].row_prods[1] = Big(1)

====
